---- MODULE Spec2Model ----
(***************************************************************************)
(* The parent side of one ExternalPlugin instance                          *)
(* (packages/appcd-plugin/src/external-plugin.js), the plugin host child   *)
(* process it spawns, and the two message directions of the Tunnel         *)
(* between them.                                                           *)
(*                                                                         *)
(* PluginBase (start/stop/setState), Tunnel and appcd-util's debounce are  *)
(* imported by external-plugin.js but their sources are not part of the    *)
(* source tree at hand; they are modelled from sections 4.1, 4.2 and 4.3   *)
(* of the specification and are marked so where they are defined.          *)
(*                                                                         *)
(* Node.js runs every handler to completion.  A promise continuation that  *)
(* a handler makes ready runs before any other event: it is kept in        *)
(* `micro` and every other action waits for it.                            *)
(***************************************************************************)
EXTENDS Integers, Sequences, FiniteSets, TLC

\* ---------------------------------------------------------------- bounds
\* spawn calls of startParent that complete
MaxRuns == 2
\* start() calls made by callers other than the restart chain
MaxStarts == 2
\* stop() calls made by callers other than the restart chain
MaxStops == 1
\* filesystem change events delivered by the watchers
MaxChanges == 2
\* dispatch(ctx, next) calls
MaxCalls == 1
\* data items a response stream emits
MaxItems == 3
\* unsubscribe messages the parent receives
MaxUnsubs == 2
\* data items of the configuration stream the plugin host receives
MaxEvents == 2
\* calls made through the patched root dispatcher of the plugin host
MaxRootCalls == 2
\* stderr chunks of the plugin host the parent receives
MaxChunks == 3

\* ------------------------------------------------------------- constants
\* plugin-base `states`
STOPPED == "stopped"
STARTING == "starting"
STARTED == "started"
STOPPING == "stopping"
States == {STOPPED, STARTING, STARTED, STOPPING}

\* `null` of info.error / info.stack / plugin.error
NoError == "null"
\* `null` of info.exitCode
NoCode == -1
\* process.exit(6) after a failed activation
ActivationFailureCode == 6
\* exit codes a plugin host process ends with: 0, the reserved code, a crash
ExitCodes == {0, 1, ActivationFailureCode}
\* this.plugin.directories
Dirs == {"lib", "src"}
\* what activate() throws or rejects with, as the catch of startChild reads
\* it: err.message and err.stack.  A value thrown without a message (a
\* string, `new Error()`) has the empty or undefined message, "" here.
Thrown == {[message |-> "", stack |-> "S0"],
           [message |-> "E1", stack |-> "S1"]}
\* the error a failed spawn call rejects with
SpawnError == [message |-> "spawn failed", stack |-> "Sspawn"]
\* the stack a PluginError gets when it is constructed in the exit handler
OwnStack == "SPluginError"
\* no error object
NoErr == [message |-> NoError, stack |-> NoError]
\* statuses a child's dispatcher replies with
Statuses == {200, 404, 500}

\* JavaScript truthiness of a string-or-null value
Truthy(v) == v # NoError /\ v # ""

\* `Failed to activate plugin (code ${data.code})`
FailedToActivate(code) == "Failed to activate plugin (code " \o ToString(code) \o ")"

VARIABLES
  info,        \* this.info: state, pid, exitCode, error, stack
  tunnel,      \* this.tunnel is not null
  watchers,    \* keys of this.watchers
  pluginError, \* plugin.error, the field the restart chain resets
  startP,      \* the promise of the latest start(): none/pending/resolved/rejected
  startErr,    \* the error that rejected it
  stopP,       \* the promise of the latest effective stop()
  deact,       \* the Tunnel send of the deactivate request: none/pending/acked
  restart,     \* a restart chain waits for stop(): idle/awaitStop
  micro,       \* the promise continuation that is ready to run
  spawnReq,    \* the spawn call of startParent is in flight
  lookups,     \* autoReload lookups in flight
  calls,       \* the dispatch() calls made so far and their outcomes
  child,       \* the plugin host process the tunnel is connected to
  alive,       \* plugin host processes of this instance that are running
  c2p,         \* messages from the child on their way to the parent
  p2c,         \* messages from the parent on their way to the child
  fsOpen,      \* FSWatcher objects that are open
  timer,       \* the debounce timer is armed
  cycles,      \* times the debounced restart callback ran
  nRuns,       \* spawn calls that have completed
  nStarts,     \* start() calls made by other callers than the restart chain
  nStops,      \* stop() calls made by other callers than the restart chain
  nChanges,    \* change events delivered so far
  side,        \* the process a stream relay runs in: none/child/parent
  stream,      \* the Readable the relay listens to: none/open/ending/ended
  got,         \* the data items the relay's 'data' listener has received
  sid,         \* `sid` of the relay's closure
  streams,     \* keys of this.streams
  sent,        \* what the relay has passed to the scoped send()
  thisSent,    \* what the relay has passed to this.send()
  streamErr,   \* the error the relay's once('error') listener has received
  unsubs,      \* the sids of the unsubscribe messages the parent has handled
  descriptor,  \* the latest PluginInfo construction: its input and outcome
  rt,          \* where the plugin host (startChild) stands
  cfgEvents,   \* the data of the configuration stream received so far
  config,      \* this.config
  configSubscriptionId, \* this.configSubscriptionId
  pollInterval,\* this.agent.pollInterval as set from the configuration
  steps,       \* what the plugin host has done, in order
  rootCalls,   \* the calls made through the patched root dispatcher
  fwd,         \* the calls forwarded to the parent with appcd.call
  debugEnabled,\* `debugEnabled` of startParent: unset/on/off
  received,    \* the stderr chunks the parent has received
  scanned,     \* the stderr lines matched against debuggerRegExp
  reported     \* times the debugger URL was logged

\* the state of the plugin instance, its child and its callers
pluginVars == <<info, tunnel, watchers, pluginError, startP, startErr, stopP,
                deact, restart, micro, spawnReq, lookups, calls, child, alive,
                c2p, p2c, fsOpen, timer, cycles, nRuns, nStarts, nStops,
                nChanges>>
\* the state of a stream relay
relayVars == <<side, stream, got, sid, streams, sent, thisSent, streamErr,
               unsubs>>

\* the state of the plugin host process (startChild)
runtimeVars == <<rt, cfgEvents, config, configSubscriptionId, pollInterval,
                 steps, rootCalls, fwd>>
\* the debugger detection of startParent
debugVars == <<debugEnabled, received, scanned, reported>>
hostedVars == <<runtimeVars, debugVars>>

vars == <<pluginVars, relayVars, descriptor, hostedVars>>

hostVars == <<info, tunnel, watchers, pluginError, startP, startErr, stopP,
              deact, restart, spawnReq, lookups, calls>>
envVars == <<child, alive, c2p, p2c, fsOpen>>
fsVars == <<timer, cycles, nChanges>>

\* phase: none/running/activated/exited; code: what it exited with; thrown:
\* what its activate() threw
\* `undefined` of the relay's `sid`
NoSid == "undefined"
\* no stream error
NoStreamErr == [message |-> NoError, stack |-> NoError, status |-> 0]
\* a configuration: whether it has a server section and the
\* agentPollInterval in it (0: none)
Config(server, agentPollInterval) ==
  [server |-> server, agentPollInterval |-> agentPollInterval]
\* `undefined` of this.config
NoConfig == [server |-> FALSE, agentPollInterval |-> -1]
\* the poll interval of the agent has not been set from a configuration
NoInterval == 0
\* Node.js versions, by their major number
Versions == 6..9
\* a version requirement (pkgJson.engines.node): `given` is its truthiness
\* (a missing engines section, a missing node entry and '' are not given);
\* a range is satisfied by the versions lo..hi, an invalid range and a range
\* with lo > hi by none
Requirement(given, lo, hi) == [given |-> given, lo |-> lo, hi |-> hi]
NoRequirement == Requirement(FALSE, 0, 0)
Requirements ==
  {NoRequirement} \cup {Requirement(TRUE, lo, hi) : lo \in Versions, hi \in Versions}
\* pkgJson.appcd.type
ManifestTypes == {"internal", "external", "Internal", "", "undefined"}
\* a package.json: whether it has an appcd section, the type in it, and
\* engines.node
Manifests ==
  {[appcd |-> FALSE, type |-> "undefined", node |-> r] : r \in Requirements}
    \cup {[appcd |-> TRUE, type |-> t, node |-> r] :
             t \in ManifestTypes, r \in Requirements}
\* the Error the constructor throws for an unsatisfied requirement
VersionMismatchError == "Internal plugin requires Node.js"
\* no PluginInfo has been constructed
NoDescriptor ==
  [made |-> FALSE, pkgJson |-> [appcd |-> FALSE, type |-> "undefined",
                               node |-> NoRequirement],
   processVersion |-> 0, thrown |-> NoError, type |-> "undefined",
   nodeVersion |-> NoRequirement]

NoChild == [phase |-> "none", code |-> NoCode, thrown |-> NoErr]

Init ==
  /\ info = [state |-> STOPPED, pid |-> FALSE, exitCode |-> NoCode,
             error |-> NoError, stack |-> NoError]
  /\ tunnel = FALSE
  /\ watchers = {}
  /\ pluginError = NoError
  /\ startP = "none"
  /\ startErr = NoErr
  /\ stopP = "none"
  /\ deact = "none"
  /\ restart = "idle"
  /\ micro = "none"
  /\ spawnReq = FALSE
  /\ lookups = 0
  /\ calls = <<>>
  /\ child = NoChild
  /\ alive = 0
  /\ c2p = <<>>
  /\ p2c = <<>>
  /\ fsOpen = 0
  /\ timer = FALSE
  /\ cycles = 0
  /\ nRuns = 0
  /\ nStarts = 0
  /\ nStops = 0
  /\ nChanges = 0
  /\ side = "none"
  /\ stream = "none"
  /\ got = <<>>
  /\ sid = NoSid
  /\ streams = {}
  /\ sent = <<>>
  /\ thisSent = <<>>
  /\ streamErr = NoStreamErr
  /\ unsubs = <<>>
  /\ descriptor = NoDescriptor
  /\ rt = "none"
  /\ cfgEvents = <<>>
  /\ config = NoConfig
  /\ configSubscriptionId = NoSid
  /\ pollInterval = NoInterval
  /\ steps = <<>>
  /\ rootCalls = <<>>
  /\ fwd = <<>>
  /\ debugEnabled = "unset"
  /\ received = <<>>
  /\ scanned = <<>>
  /\ reported = 0

\* ------------------------------------------------------------ the Tunnel
Live == {"running", "activated"}

\* a message of the tunnel; `id` is the correlation id of a request or reply
Msg(type, id, message, stack, status) ==
  [type |-> type, id |-> id, message |-> message, stack |-> stack, status |-> status]

\* the correlation id of the deactivate request (dispatch calls use 1, 2, ..)
DeactivateId == 0

\* Tunnel.send / Tunnel.emit towards the child: the transport keeps the
\* order; what is written to a process that has exited is lost
ToChild(m) == IF child.phase \in Live THEN Append(p2c, m) ELSE p2c

\* an entry of `calls`: a dispatch() call and what became of it
Call(st, status, response) == [st |-> st, status |-> status, response |-> response]

\* a Tunnel that leaves its pending sends alone when the peer exits
RejectPending_None(cs) == cs

\* every send() that is pending when the peer exits rejects
RejectPending(cs) ==
  [k \in DOMAIN cs |-> IF cs[k].st = "pending" THEN Call("rejected", 0, "") ELSE cs[k]]

\* ------------------------------------------------------------ PluginBase
\* setState(state, err)
SetState(i, s) == [i EXCEPT !.state = s]

\* startParent() up to the spawn call
StartParent == spawnReq' = TRUE

\* start(): only a stopped plugin is started; otherwise the call changes
\* nothing and the caller gets the completion that exists
PluginStart ==
  IF info.state = STOPPED
  THEN /\ info' = SetState(info, STARTING)
       /\ StartParent
       /\ startP' = "pending"
       /\ startErr' = NoErr
  ELSE UNCHANGED <<info, spawnReq, startP, startErr>>

\* onStop(): this.tunnel.send({ type: 'deactivate' }); a null tunnel throws
OnStop ==
  IF tunnel
  THEN /\ p2c' = ToChild(Msg("deactivate", DeactivateId, "", "", 0))
       /\ deact' = "pending"
       /\ stopP' = "pending"
  ELSE /\ stopP' = "rejected"
       /\ UNCHANGED <<p2c, deact>>

\* stop(): only a started plugin is stopped; the call completes when the
\* child has exited
PluginStop ==
  /\ info.state = STARTED
  /\ info' = SetState(info, STOPPING)
  /\ OnStop

\* ------------------------------------------------- callers of the plugin
Start ==
  /\ micro = "none"
  /\ nStarts < MaxStarts
  /\ nStarts' = nStarts + 1
  /\ PluginStart
  /\ UNCHANGED <<tunnel, watchers, pluginError, stopP, deact, restart, micro,
                 lookups, calls, nRuns, nStops>>
  /\ UNCHANGED envVars /\ UNCHANGED fsVars
  /\ UNCHANGED relayVars /\ UNCHANGED descriptor
  /\ UNCHANGED hostedVars

Stop ==
  /\ micro = "none"
  /\ nStops < MaxStops
  /\ nStops' = nStops + 1
  /\ IF info.state = STARTED
     THEN PluginStop
     ELSE UNCHANGED <<info, p2c, deact, stopP>>
  /\ UNCHANGED <<tunnel, watchers, pluginError, startP, startErr, restart, micro,
                 spawnReq, lookups, calls, nRuns, nStarts>>
  /\ UNCHANGED <<child, alive, c2p, fsOpen>> /\ UNCHANGED fsVars
  /\ UNCHANGED relayVars /\ UNCHANGED descriptor
  /\ UNCHANGED hostedVars

\* dispatch() without the check for a missing tunnel
DispatchForwards_Always == TRUE

\* dispatch(): `if (!this.tunnel) return next()`
DispatchForwards == tunnel

\* dispatch(ctx, next)
Dispatch ==
  /\ micro = "none"
  /\ Len(calls) < MaxCalls
  /\ IF ~DispatchForwards
     THEN /\ calls' = Append(calls, Call("next", 0, ""))
          /\ p2c' = p2c
     ELSE /\ calls' = Append(calls, Call("pending", 0, ""))
          /\ p2c' = ToChild(Msg("dispatch", Len(calls) + 1, "", "", 0))
  /\ UNCHANGED <<info, tunnel, watchers, pluginError, startP, startErr, stopP,
                 deact, restart, micro, spawnReq, lookups, nRuns, nStarts, nStops>>
  /\ UNCHANGED <<child, alive, c2p, fsOpen>> /\ UNCHANGED fsVars
  /\ UNCHANGED relayVars /\ UNCHANGED descriptor
  /\ UNCHANGED hostedVars

\* ------------------------------------------------------ spawning (parent)
\* the spawn call rejects: the catch of startParent
SpawnFail ==
  /\ micro = "none"
  /\ spawnReq
  /\ nRuns < MaxRuns
  /\ nRuns' = nRuns + 1
  /\ spawnReq' = FALSE
  /\ info' = SetState(info, STOPPED)
  /\ startP' = "rejected"
  /\ startErr' = SpawnError
  /\ UNCHANGED <<tunnel, watchers, pluginError, stopP, deact, restart, micro,
                 lookups, calls, nStarts, nStops>>
  /\ UNCHANGED envVars /\ UNCHANGED fsVars
  /\ UNCHANGED relayVars /\ UNCHANGED descriptor
  /\ UNCHANGED hostedVars

\* the spawn call resolves: a plugin host process runs and the Tunnel to it
\* is created
SpawnOk ==
  /\ micro = "none"
  /\ spawnReq
  /\ nRuns < MaxRuns
  /\ nRuns' = nRuns + 1
  /\ spawnReq' = FALSE
  /\ tunnel' = TRUE
  /\ child' = [phase |-> "running", code |-> NoCode, thrown |-> NoErr]
  /\ alive' = alive + 1
  /\ c2p' = <<>>
  /\ p2c' = <<>>
  /\ UNCHANGED <<info, watchers, pluginError, startP, startErr, stopP, deact,
                 restart, micro, lookups, calls, fsOpen, nStarts, nStops>>
  /\ UNCHANGED fsVars
  /\ UNCHANGED relayVars /\ UNCHANGED descriptor
  /\ UNCHANGED hostedVars

\* ctx.response 'data', case 'spawn'
OnSpawn ==
  /\ micro = "none"
  /\ tunnel
  /\ child.phase # "none"
  /\ ~info.pid
  /\ info' = [info EXCEPT !.pid = TRUE, !.exitCode = NoCode]
  /\ lookups' = lookups + 1
  /\ UNCHANGED <<tunnel, watchers, pluginError, startP, startErr, stopP, deact,
                 restart, micro, spawnReq, calls, nRuns, nStarts, nStops>>
  /\ UNCHANGED envVars /\ UNCHANGED fsVars
  /\ UNCHANGED relayVars /\ UNCHANGED descriptor
  /\ UNCHANGED hostedVars

\* the autoReload lookup started by the spawn handler completes; a lookup
\* that fails counts as autoReload = true
AutoReload(autoReload) ==
  /\ micro = "none"
  /\ lookups > 0
  /\ lookups' = lookups - 1
  /\ IF autoReload
     THEN /\ watchers' = Dirs
          /\ fsOpen' = fsOpen + Cardinality(Dirs)
     ELSE UNCHANGED <<watchers, fsOpen>>
  /\ UNCHANGED <<info, tunnel, pluginError, startP, startErr, stopP, deact,
                 restart, micro, spawnReq, calls, nRuns, nStarts, nStops>>
  /\ UNCHANGED <<child, alive, c2p, p2c>> /\ UNCHANGED fsVars
  /\ UNCHANGED relayVars /\ UNCHANGED descriptor
  /\ UNCHANGED hostedVars

\* ------------------------------------------------ the plugin host (child)
\* startChild: activate() succeeds, then tunnel.emit({ type: 'activated' })
ChildActivated ==
  /\ micro = "none"
  /\ child.phase = "running"
  /\ child' = [child EXCEPT !.phase = "activated"]
  /\ c2p' = Append(c2p, Msg("activated", DeactivateId, "", "", 0))
  /\ UNCHANGED hostVars /\ UNCHANGED <<micro, nRuns, nStarts, nStops>>
  /\ UNCHANGED <<alive, p2c, fsOpen>> /\ UNCHANGED fsVars
  /\ UNCHANGED relayVars /\ UNCHANGED descriptor
  /\ UNCHANGED hostedVars

\* startChild: activate() throws or rejects with err: the catch emits
\* activation_error and calls process.exit(6)
ChildActivationError(err) ==
  /\ micro = "none"
  /\ child.phase = "running"
  /\ c2p' = Append(c2p, Msg("activation_error", DeactivateId, err.message, err.stack, 0))
  /\ child' = [phase |-> "exited", code |-> ActivationFailureCode, thrown |-> err]
  /\ alive' = alive - 1
  /\ p2c' = <<>>
  /\ UNCHANGED hostVars /\ UNCHANGED <<micro, nRuns, nStarts, nStops>>
  /\ UNCHANGED fsOpen /\ UNCHANGED fsVars
  /\ UNCHANGED relayVars /\ UNCHANGED descriptor
  /\ UNCHANGED hostedVars

\* the plugin host process ends on its own or is killed, with any exit code
ChildExit(code) ==
  /\ micro = "none"
  /\ child.phase \in Live
  /\ child' = [child EXCEPT !.phase = "exited", !.code = code]
  /\ alive' = alive - 1
  /\ p2c' = <<>>
  /\ UNCHANGED hostVars /\ UNCHANGED <<micro, nRuns, nStarts, nStops>>
  /\ UNCHANGED <<c2p, fsOpen>> /\ UNCHANGED fsVars
  /\ UNCHANGED relayVars /\ UNCHANGED descriptor
  /\ UNCHANGED hostedVars

\* the child's tunnel handler, req.message.type === 'deactivate': when the
\* deactivate hook returns, send OK and process.exit(0); when it throws or
\* rejects the chain ends there
ChildDeactivate(hookOk) ==
  /\ micro = "none"
  /\ child.phase \in Live
  /\ p2c # <<>>
  /\ Head(p2c).type = "deactivate"
  /\ IF hookOk
     THEN /\ c2p' = Append(c2p, Msg("reply", Head(p2c).id, "", "", 200))
          /\ child' = [child EXCEPT !.phase = "exited", !.code = 0]
          /\ alive' = alive - 1
          /\ p2c' = <<>>
     ELSE /\ p2c' = Tail(p2c)
          /\ UNCHANGED <<c2p, child, alive>>
  /\ UNCHANGED hostVars /\ UNCHANGED <<micro, nRuns, nStarts, nStops>>
  /\ UNCHANGED fsOpen /\ UNCHANGED fsVars
  /\ UNCHANGED relayVars /\ UNCHANGED descriptor
  /\ UNCHANGED hostedVars

\* the child's tunnel handler, a dispatch request: the plugin's dispatcher
\* answers with a status
ChildDispatch(status) ==
  /\ micro = "none"
  /\ child.phase \in Live
  /\ p2c # <<>>
  /\ Head(p2c).type = "dispatch"
  /\ c2p' = Append(c2p, Msg("reply", Head(p2c).id, "R", "", status))
  /\ p2c' = Tail(p2c)
  /\ UNCHANGED hostVars /\ UNCHANGED <<micro, nRuns, nStarts, nStops>>
  /\ UNCHANGED <<child, alive, fsOpen>> /\ UNCHANGED fsVars
  /\ UNCHANGED relayVars /\ UNCHANGED descriptor
  /\ UNCHANGED hostedVars

\* ------------------------------------------- the parent's tunnel handler
\* case 'activated': resolve(); start() then sets STARTED
OnActivated ==
  /\ IF startP = "pending"
     THEN /\ startP' = "resolved"
          /\ info' = SetState(info, STARTED)
     ELSE UNCHANGED <<startP, info>>
  /\ UNCHANGED <<deact, calls>>

\* case 'activation_error' falling through to resolve()
OnActivationError_Resolves(req) ==
  /\ info' = [info EXCEPT !.error = req.message, !.stack = req.stack,
                          !.state = IF startP = "pending" THEN STARTED ELSE @]
  /\ startP' = IF startP = "pending" THEN "resolved" ELSE startP
  /\ UNCHANGED <<deact, calls>>

\* case 'activation_error'
OnActivationError(req) ==
  /\ info' = [info EXCEPT !.error = req.message, !.stack = req.stack]
  /\ UNCHANGED <<startP, deact, calls>>

\* the then-callback of dispatch() answering every reply, a 404 too
DispatchThen_Answers404(c, res) == Call("answered", res.status, res.message)

\* the then-callback of dispatch(): what becomes of the call with context c
\* when the reply res settles its send()
DispatchThen(c, res) ==
  IF res.status = 404
  THEN Call("next", c.status, c.response)
  ELSE Call("answered", res.status, res.message)

\* a reply: the Tunnel settles the send() with the same id; for a dispatch
\* the then-callback of dispatch() maps the reply
OnReply(req) ==
  /\ IF req.id = DeactivateId
     THEN /\ deact' = "acked"
          /\ calls' = calls
     ELSE /\ deact' = deact
          /\ calls' = [calls EXCEPT ![req.id] = DispatchThen(@, req)]
  /\ UNCHANGED <<startP, info>>

Deliver ==
  /\ micro = "none"
  /\ tunnel
  /\ c2p # <<>>
  /\ LET req == Head(c2p) IN
       CASE req.type = "activated" -> OnActivated
         [] req.type = "activation_error" -> OnActivationError(req)
         [] OTHER -> OnReply(req)
  /\ c2p' = Tail(c2p)
  /\ UNCHANGED <<tunnel, watchers, pluginError, startErr, stopP, restart, micro,
                 spawnReq, lookups, nRuns, nStarts, nStops>>
  /\ UNCHANGED <<child, alive, p2c, fsOpen>> /\ UNCHANGED fsVars
  /\ UNCHANGED relayVars /\ UNCHANGED descriptor
  /\ UNCHANGED hostedVars

\* ------------------------------------ ctx.response 'data', case 'exit'
\* whether the handler calls reject(err)
ExitRejects(i, code) == code # 0 /\ i.state = STARTING

\* this.info.error after the handler
ExitError(i, code) ==
  IF ExitRejects(i, code) /\ ~Truthy(i.error) THEN FailedToActivate(code) ELSE i.error

\* err = new PluginError(this.info.error), with this.info.stack when set
ExitErr(i, code) ==
  [message |-> ExitError(i, code),
   stack |-> IF Truthy(i.stack) THEN i.stack ELSE OwnStack]

\* the handler giving a crash of a started plugin a state of its own
ExitInfo_Crashed(i, code) ==
  SetState([i EXCEPT !.pid = FALSE,
                     !.exitCode = IF code # 0 THEN code ELSE i.exitCode,
                     !.error = ExitError(i, code)],
           IF code # 0 /\ i.state = STARTED THEN "crashed" ELSE STOPPED)

\* the handler returning after a non-zero exit that is no failed activation
ExitInfo_KeepsState(i, code) ==
  SetState([i EXCEPT !.pid = FALSE,
                     !.exitCode = IF code # 0 THEN code ELSE i.exitCode,
                     !.error = ExitError(i, code)],
           IF code # 0 /\ i.state # STARTING THEN i.state ELSE STOPPED)

\* this.info after the handler, setState(states.STOPPED, err) included
ExitInfo(i, code) ==
  SetState([i EXCEPT !.pid = FALSE,
                     !.exitCode = IF code # 0 THEN code ELSE i.exitCode,
                     !.error = ExitError(i, code)],
           STOPPED)

\* a handler that stops at the first watcher of the map
ExitClosed_FirstOnly(w) == w \cap {"lib"}

\* the watchers the handler closes and removes from the map
ExitClosed(w) == w

ExitEvent ==
  /\ micro = "none"
  /\ child.phase = "exited"
  /\ info.pid
  /\ c2p = <<>>
  /\ tunnel' = FALSE
  /\ fsOpen' = fsOpen - Cardinality(ExitClosed(watchers))
  /\ watchers' = watchers \ ExitClosed(watchers)
  /\ info' = ExitInfo(info, child.code)
  /\ IF ExitRejects(info, child.code) /\ startP = "pending"
     THEN /\ startP' = "rejected"
          /\ startErr' = ExitErr(info, child.code)
     ELSE UNCHANGED <<startP, startErr>>
  \* the peer is gone: the Tunnel rejects the sends that are pending
  /\ calls' = RejectPending(calls)
  /\ deact' = "none"
  \* stop() completes: with the child's exit when the deactivate request
  \* was acknowledged, with the rejection of that request otherwise
  /\ stopP' = IF stopP = "pending"
              THEN (IF deact = "acked" THEN "resolved" ELSE "rejected")
              ELSE stopP
  /\ IF restart = "awaitStop"
     THEN /\ restart' = "idle"
          /\ micro' = IF deact = "acked" THEN "restartThen" ELSE "restartCatch"
     ELSE UNCHANGED <<restart, micro>>
  /\ child' = NoChild
  /\ UNCHANGED <<pluginError, spawnReq, lookups, nRuns, nStarts, nStops>>
  /\ UNCHANGED <<alive, c2p, p2c>> /\ UNCHANGED fsVars
  /\ UNCHANGED relayVars /\ UNCHANGED descriptor
  /\ UNCHANGED hostedVars

\* ----------------------------------------------------------- auto reload
\* an FSWatcher 'change' event calls the debounced onFilesystemChange: the
\* call arms the timer, or restarts it when it is armed
FsChange ==
  /\ micro = "none"
  /\ fsOpen > 0
  /\ nChanges < MaxChanges
  /\ nChanges' = nChanges + 1
  /\ timer' = TRUE
  /\ cycles' = cycles
  /\ UNCHANGED hostVars /\ UNCHANGED envVars
  /\ UNCHANGED <<micro, nRuns, nStarts, nStops>>
  /\ UNCHANGED relayVars /\ UNCHANGED descriptor
  /\ UNCHANGED hostedVars

\* the restart chain not returning the promise of stop()
RestartStop_NoWait ==
  IF info.state = STARTED
  THEN /\ PluginStop
       /\ restart' = restart
       /\ micro' = "restartThen"
  ELSE /\ micro' = "restartThen"
       /\ UNCHANGED <<info, p2c, deact, stopP, restart>>

\* the first step of the restart chain: this.stop()
RestartStop ==
  IF info.state = STARTED
  THEN /\ PluginStop
       /\ restart' = IF tunnel THEN "awaitStop" ELSE restart
       /\ micro' = IF tunnel THEN micro ELSE "restartCatch"
  ELSE /\ micro' = "restartThen"
       /\ UNCHANGED <<info, p2c, deact, stopP, restart>>

\* the debounce timer expires: the callback of onFilesystemChange runs once
DebounceFire ==
  /\ micro = "none"
  /\ timer
  /\ timer' = FALSE
  /\ cycles' = cycles + 1
  /\ RestartStop
  /\ UNCHANGED <<tunnel, watchers, pluginError, startP, startErr, spawnReq,
                 lookups, calls, nRuns, nStarts, nStops>>
  /\ UNCHANGED <<child, alive, c2p, fsOpen>>
  /\ UNCHANGED nChanges
  /\ UNCHANGED relayVars /\ UNCHANGED descriptor
  /\ UNCHANGED hostedVars

\* the second step of the restart chain, once stop() has completed:
\* plugin.error = null; return this.start()
RestartThen ==
  /\ micro = "restartThen"
  /\ micro' = "none"
  /\ pluginError' = NoError
  /\ PluginStart
  /\ UNCHANGED <<tunnel, watchers, stopP, deact, restart, lookups, calls,
                 nRuns, nStarts, nStops>>
  /\ UNCHANGED envVars /\ UNCHANGED fsVars
  /\ UNCHANGED relayVars /\ UNCHANGED descriptor
  /\ UNCHANGED hostedVars

\* the catch of the restart chain: stop() rejected, the failure is logged
RestartCatch ==
  /\ micro = "restartCatch"
  /\ micro' = "none"
  /\ UNCHANGED hostVars /\ UNCHANGED envVars /\ UNCHANGED fsVars
  /\ UNCHANGED <<nRuns, nStarts, nStops>>
  /\ UNCHANGED relayVars /\ UNCHANGED descriptor
  /\ UNCHANGED hostedVars

\* ---------------------------------------------- stream-to-message relay
\* subscription ids
Sids == {"s1", "s2"}
\* `undefined` of a message's type
NoType == "undefined"

\* a message of a response stream or of the relay: an object with its
\* fields, or a value that is no object (kind "string")
Item(kind, type, s, message, stack, status) ==
  [kind |-> kind, type |-> type, sid |-> s, message |-> message,
   stack |-> stack, status |-> status]

\* what a response stream emits: the subscribe message of a subscription,
\* an event that names its type, an object without a type, a string
Items ==
  {Item("object", "subscribe", "s1", "Subscribed", "", 0),
   Item("object", "event", "s1", "e", "", 0),
   Item("object", NoType, NoSid, "o", "", 0),
   Item("string", NoType, NoSid, "m", "", 0)}

\* what a response stream fails with; status 0: the error has no status
StreamErrors ==
  {[message |-> "boom", stack |-> "Sboom", status |-> 0],
   [message |-> "denied", stack |-> "Sdenied", status |-> 403]}

\* `sid` after the 'data' listener has looked at the message
DataSid(cur, message) ==
  IF message.type = "subscribe" THEN message.sid ELSE cur

\* the child's 'data' listener: the message it sends for a data item;
\* cur is `sid` after the test for 'subscribe'
ChildForward(cur, message) ==
  LET type == IF message.type # NoType /\ message.type # ""
              THEN message.type
              ELSE IF cur # NoSid /\ cur # "" THEN "event" ELSE NoType
  IN IF message.kind = "object"
     THEN [message EXCEPT !.type = type]
     ELSE Item("object", type, NoSid, message.message, "", 0)

\* the parent's 'data' listener sends the message as it is
ParentForward(cur, message) == message

\* { sid, type: 'fin' }
Fin(s) == Item("object", "fin", s, "", "", 0)

\* the 'end' listener: if (sid) send the fin
EndSends(cur) == IF cur # NoSid /\ cur # "" THEN <<Fin(cur)>> ELSE <<>>

\* the message the 'error' listener builds: err.message || err, err.stack,
\* err.status || 500, type 'error'
ErrorMessage(err) ==
  Item("object", "error", NoSid, err.message, err.stack,
       IF err.status # 0 THEN err.status ELSE 500)

\* what the dispatcher call of a tunnel handler ends with when its response
\* is no stream: a value, an Error as the response, a rejection
Outcomes == {"value", "error response", "rejected"}

\* a handler whose catch replies again after the then-callback has replied
HandlerReplies_CatchToo(where, outcome) ==
  <<Item("object", NoType, NoSid, "R", "", 200),
    Item("object", "error", NoSid, "E", "SE", 500)>>

\* the replies a tunnel handler sends with the scoped send() for a
\* dispatch whose response is no stream: { status, message: response } for
\* a value, the Error for an Error response, and from the catch the error
\* (child: an AppcdError; parent: message, stack, status || 500, 'error')
HandlerReplies(where, outcome) ==
  IF outcome = "value"
  THEN <<Item("object", NoType, NoSid, "R", "", 200)>>
  ELSE IF outcome = "error response"
       THEN <<Item("object", "error", NoSid, "E", "SE", 400)>>
       ELSE <<Item("object", "error", NoSid, "E", "SE", 500)>>

\* the dispatcher call of a tunnel handler ends without a stream
DispatchResult(where, outcome) ==
  /\ side = "none"
  /\ side' = where
  /\ sent' = HandlerReplies(where, outcome)
  /\ UNCHANGED <<stream, got, sid, streams, thisSent, streamErr, unsubs>>
  /\ UNCHANGED pluginVars /\ UNCHANGED descriptor
  /\ UNCHANGED hostedVars

\* the dispatcher call of a tunnel handler returns a Readable: the relay
\* attaches its listeners
RelayOpen(where) ==
  /\ side = "none"
  /\ side' = where
  /\ stream' = "open"
  /\ UNCHANGED <<got, sid, streams, sent, thisSent, streamErr, unsubs>>
  /\ UNCHANGED pluginVars /\ UNCHANGED descriptor
  /\ UNCHANGED hostedVars

\* on('data')
StreamData(message) ==
  /\ stream = "open"
  /\ Len(got) < MaxItems
  /\ got' = Append(got, message)
  /\ sid' = DataSid(sid, message)
  /\ IF side = "parent"
     THEN /\ streams' = IF message.type = "subscribe"
                        THEN streams \cup {message.sid} ELSE streams
          /\ sent' = Append(sent, ParentForward(sid', message))
     ELSE /\ streams' = streams
          /\ sent' = Append(sent, ChildForward(sid', message))
  /\ UNCHANGED <<side, stream, thisSent, streamErr, unsubs>>
  /\ UNCHANGED pluginVars /\ UNCHANGED descriptor
  /\ UNCHANGED hostedVars

\* once('end'): the stream has no more data, or end() was called on it
StreamEnd ==
  /\ stream \in {"open", "ending"}
  /\ stream' = "ended"
  /\ streams' = IF side = "parent" THEN streams \ {sid} ELSE streams
  /\ sent' = sent \o EndSends(sid)
  /\ UNCHANGED <<side, got, sid, thisSent, streamErr, unsubs>>
  /\ UNCHANGED pluginVars /\ UNCHANGED descriptor
  /\ UNCHANGED hostedVars

\* once('error'): the stream emits 'error' with err.  A stream that is
\* destroyed with the error emits nothing more (terminal); a stream whose
\* owner emits 'error' on it stays as it is.  The message is passed to
\* this.send, which is not the send() of the request.
StreamError(err, terminal) ==
  /\ stream \in {"open", "ending"}
  /\ streamErr = NoStreamErr
  /\ streamErr' = err
  /\ stream' = IF terminal THEN "destroyed" ELSE stream
  /\ streams' = IF side = "parent" THEN streams \ {sid} ELSE streams
  /\ thisSent' = Append(thisSent, ErrorMessage(err))
  /\ UNCHANGED <<side, got, sid, sent, unsubs>>
  /\ UNCHANGED pluginVars /\ UNCHANGED descriptor
  /\ UNCHANGED hostedVars

\* the unsubscribe case without its test
UnsubscribeKnown_Always(s) == TRUE

\* the parent's tunnel handler, case 'unsubscribe': if (this.streams[req.sid])
UnsubscribeKnown(s) == s \in streams

\* the parent's tunnel handler, case 'unsubscribe'
Unsubscribe(s) ==
  /\ Len(unsubs) < MaxUnsubs
  /\ unsubs' = Append(unsubs, s)
  /\ IF UnsubscribeKnown(s)
     THEN /\ stream' = IF stream = "open" THEN "ending" ELSE stream
          /\ streams' = streams \ {s}
     ELSE UNCHANGED <<stream, streams>>
  /\ UNCHANGED <<side, got, sid, sent, thisSent, streamErr>>
  /\ UNCHANGED pluginVars /\ UNCHANGED descriptor
  /\ UNCHANGED hostedVars

\* ------------------------------------------------------------ PluginInfo
\* semver.satisfies(version, range)
Satisfies(version, range) == range.lo <= version /\ version <= range.hi

\* a type test that ignores the case of the declared type
PluginType_IgnoreCase(pkgJson) ==
  IF pkgJson.appcd /\ pkgJson.type \in {"internal", "Internal"}
  THEN "internal" ELSE "external"

\* this.type
PluginType(pkgJson) ==
  IF pkgJson.appcd /\ pkgJson.type = "internal" THEN "internal" ELSE "external"

\* a version check that is applied to plugins of every type
VersionMismatch_AnyType(type, node, processVersion) ==
  node.given /\ ~Satisfies(processVersion, node)

\* whether the constructor throws for the declared requirement
VersionMismatch(type, node, processVersion) ==
  node.given /\ type = "internal" /\ ~Satisfies(processVersion, node)

\* this.nodeVersion: the declared requirement, or process.version
NodeVersion(node, processVersion) ==
  IF node.given THEN node ELSE Requirement(TRUE, processVersion, processVersion)

\* new PluginInfo(dir) for a directory whose package.json is pkgJson, in a
\* process of version processVersion
Construct(pkgJson, processVersion) ==
  /\ descriptor' =
       [made |-> TRUE, pkgJson |-> pkgJson, processVersion |-> processVersion,
        thrown |-> IF VersionMismatch(PluginType(pkgJson), pkgJson.node, processVersion)
                   THEN VersionMismatchError ELSE NoError,
        type |-> PluginType(pkgJson),
        nodeVersion |-> NodeVersion(pkgJson.node, processVersion)]
  /\ UNCHANGED pluginVars /\ UNCHANGED relayVars
  /\ UNCHANGED hostedVars

\* ------------------------------------------- the plugin host: startChild
\* the values of server.agentPollInterval in a configuration; 0: not set
PollIntervals == {0, 500, 1000, 5000}

\* the data of the configuration stream: the subscribe message and
\* configuration events, with and without a server section
ConfigMessages ==
  {[type |-> "subscribe", sid |-> "c1", message |-> NoConfig],
   [type |-> "event", sid |-> "c1", message |-> Config(FALSE, 0)]}
    \cup {[type |-> "event", sid |-> "c1", message |-> Config(TRUE, v)] :
             v \in PollIntervals}

\* Math.max(1000, v)
Max1000(v) == IF v > 1000 THEN v ELSE 1000

\* a poll interval taken from the configuration as it is
AgentPollInterval_Unclamped(cur, cfg) ==
  IF cfg.server /\ cfg.agentPollInterval # 0 THEN cfg.agentPollInterval ELSE cur

\* this.agent.pollInterval after a configuration event with configuration
\* cfg: set only when server.agentPollInterval is truthy
AgentPollInterval(cur, cfg) ==
  IF cfg.server /\ cfg.agentPollInterval # 0
  THEN Max1000(cfg.agentPollInterval) ELSE cur

\* startChild up to the call that subscribes to /appcd/config
StartChild ==
  /\ rt = "none"
  /\ rt' = "subscribing"
  /\ UNCHANGED <<cfgEvents, config, configSubscriptionId, pollInterval, steps,
                 rootCalls, fwd>>
  /\ UNCHANGED pluginVars /\ UNCHANGED relayVars /\ UNCHANGED descriptor
  /\ UNCHANGED debugVars

\* the subscribe call settles: resolved, the chain waits for the first
\* configuration event; rejected, the failure is logged and activate() is
\* invoked
ConfigSubscribed(ok) ==
  /\ rt = "subscribing"
  /\ IF ok
     THEN /\ rt' = "waiting"
          /\ steps' = steps
     ELSE /\ rt' = "activating"
          /\ steps' = Append(steps, "activate")
  /\ UNCHANGED <<cfgEvents, config, configSubscriptionId, pollInterval,
                 rootCalls, fwd>>
  /\ UNCHANGED pluginVars /\ UNCHANGED relayVars /\ UNCHANGED descriptor
  /\ UNCHANGED debugVars

\* response.on('data') of the configuration stream
ConfigData(response) ==
  /\ rt \notin {"none", "subscribing", "exited"}
  /\ Len(cfgEvents) < MaxEvents
  /\ cfgEvents' = Append(cfgEvents, response)
  /\ IF response.type = "event"
     THEN /\ config' = response.message
          /\ configSubscriptionId' = response.sid
          /\ pollInterval' = AgentPollInterval(pollInterval, response.message)
          \* if (!initialized): resolve(), and the chain invokes activate()
          /\ IF rt = "waiting"
             THEN /\ rt' = "activating"
                  /\ steps' = Append(steps, "activate")
             ELSE UNCHANGED <<rt, steps>>
     ELSE UNCHANGED <<config, configSubscriptionId, pollInterval, rt, steps>>
  /\ UNCHANGED <<rootCalls, fwd>>
  /\ UNCHANGED pluginVars /\ UNCHANGED relayVars /\ UNCHANGED descriptor
  /\ UNCHANGED debugVars

\* activate() settles: resolved, the host emits activated; rejected, it
\* emits activation_error and exits with code 6
Activate(ok) ==
  /\ rt = "activating"
  /\ IF ok
     THEN /\ rt' = "active"
          /\ steps' = Append(steps, "activated")
     ELSE /\ rt' = "exited"
          /\ steps' = steps \o <<"activation_error", "exit 6">>
  /\ UNCHANGED <<cfgEvents, config, configSubscriptionId, pollInterval,
                 rootCalls, fwd>>
  /\ UNCHANGED pluginVars /\ UNCHANGED relayVars /\ UNCHANGED descriptor
  /\ UNCHANGED debugVars

\* a deactivation that gives up when the configuration unsubscribe fails
AfterUnsubscribe_FailureAborts(ok) == IF ok THEN "hook" ELSE "stuck"

\* where the deactivate chain goes when the unsubscribe call has settled:
\* a failure is caught and logged
AfterUnsubscribe(ok) == "hook"

\* the tunnel handler of the plugin host receives the deactivate request:
\* if (this.configSubscriptionId), it calls the unsubscribe and awaits it
Deactivate ==
  /\ rt = "active"
  /\ IF configSubscriptionId # NoSid
     THEN /\ rt' = "unsubscribing"
          /\ steps' = steps \o <<"deactivate", "unsubscribe">>
     ELSE /\ rt' = "hook"
          /\ steps' = Append(steps, "deactivate")
  /\ UNCHANGED <<cfgEvents, config, configSubscriptionId, pollInterval,
                 rootCalls, fwd>>
  /\ UNCHANGED pluginVars /\ UNCHANGED relayVars /\ UNCHANGED descriptor
  /\ UNCHANGED debugVars

\* the unsubscribe call settles
UnsubscribeDone(ok) ==
  /\ rt = "unsubscribing"
  /\ rt' = AfterUnsubscribe(ok)
  /\ steps' = IF ok THEN steps ELSE Append(steps, "unsubscribe failed")
  /\ UNCHANGED <<cfgEvents, config, configSubscriptionId, pollInterval,
                 rootCalls, fwd>>
  /\ UNCHANGED pluginVars /\ UNCHANGED relayVars /\ UNCHANGED descriptor
  /\ UNCHANGED debugVars

\* the deactivate hook of the plugin module, if it has one: when the hook
\* throws or rejects, the chain ends rejected
DeactivateHook(present, ok) ==
  /\ rt = "hook"
  /\ IF present
     THEN /\ steps' = Append(steps, "hook")
          /\ rt' = IF ok THEN "ack" ELSE "stuck"
     ELSE /\ steps' = steps
          /\ rt' = "ack"
  /\ UNCHANGED <<cfgEvents, config, configSubscriptionId, pollInterval,
                 rootCalls, fwd>>
  /\ UNCHANGED pluginVars /\ UNCHANGED relayVars /\ UNCHANGED descriptor
  /\ UNCHANGED debugVars

\* send(new Response(codes.OK)); process.exit(0)
AckAndExit ==
  /\ rt = "ack"
  /\ rt' = "exited"
  /\ steps' = steps \o <<"ack", "exit 0">>
  /\ UNCHANGED <<cfgEvents, config, configSubscriptionId, pollInterval,
                 rootCalls, fwd>>
  /\ UNCHANGED pluginVars /\ UNCHANGED relayVars /\ UNCHANGED descriptor
  /\ UNCHANGED debugVars

\* what the original call of the root dispatcher ends with in the plugin
\* host: a result, or an error: whether it is a DispatcherError, and its
\* statusCode
LocalOutcomes ==
  {[ok |-> TRUE, dispatcherError |-> FALSE, statusCode |-> 200]}
    \cup {[ok |-> FALSE, dispatcherError |-> d, statusCode |-> c] :
             d \in BOOLEAN, c \in {404, 500}}

\* a patched call that forwards every error with statusCode 404
ForwardsToParent_Any404(local) == ~local.ok /\ local.statusCode = 404

\* the catch of the patched call: err instanceof DispatcherError &&
\* err.statusCode === 404
ForwardsToParent(local) ==
  ~local.ok /\ local.dispatcherError /\ local.statusCode = 404

\* rootDispatcher.call(path, payload), patched: the original call, and for
\* a route that is not found this.globals.appcd.call(path, payload), which
\* sends { path, data } through the tunnel
RootCall(path, payload, local) ==
  /\ rt \notin {"none", "exited"}
  /\ Len(rootCalls) < MaxRootCalls
  /\ IF ForwardsToParent(local)
     THEN /\ rootCalls' = Append(rootCalls,
                                  [path |-> path, payload |-> payload,
                                   local |-> local, st |-> "forwarded",
                                   outcome |-> "pending"])
          /\ fwd' = Append(fwd, [call |-> Len(rootCalls) + 1, path |-> path,
                                 data |-> payload, reply |-> "pending"])
     ELSE /\ rootCalls' = Append(rootCalls,
                                  [path |-> path, payload |-> payload,
                                   local |-> local, st |-> "done",
                                   outcome |-> IF local.ok THEN "local result"
                                               ELSE "local error"])
          /\ fwd' = fwd
  /\ UNCHANGED <<rt, cfgEvents, config, configSubscriptionId, pollInterval, steps>>
  /\ UNCHANGED pluginVars /\ UNCHANGED relayVars /\ UNCHANGED descriptor
  /\ UNCHANGED debugVars

\* the parent settles a forwarded call: the promise of tunnel.send() is the
\* outcome of the patched call
ParentSettles(k, result) ==
  /\ rt # "exited"
  /\ k \in DOMAIN fwd
  /\ fwd[k].reply = "pending"
  /\ fwd' = [fwd EXCEPT ![k].reply = result]
  /\ rootCalls' = [rootCalls EXCEPT ![fwd[k].call].st = "done",
                                    ![fwd[k].call].outcome = result]
  /\ UNCHANGED <<rt, cfgEvents, config, configSubscriptionId, pollInterval, steps>>
  /\ UNCHANGED pluginVars /\ UNCHANGED relayVars /\ UNCHANGED descriptor
  /\ UNCHANGED debugVars

\* ------------------------------------------ startParent: debugger output
\* lines of the plugin host's stderr
StderrLines ==
  {"Debugger listening on ws://127.0.0.1:9230/1a2b-3c4d",
   "Debugger listening on port 9230",
   "warning"}

\* line.match(debuggerRegExp), /^Debugger listening on .+\/([A-Za-z0-9-]+)$/
MatchesDebugger(line) ==
  line = "Debugger listening on ws://127.0.0.1:9230/1a2b-3c4d"

\* data.output.trim().split('\n') of a stderr chunk: one or two lines
StderrChunks ==
  {<<a>> : a \in StderrLines} \cup {<<a, b>> : a \in StderrLines, b \in StderrLines}

\* the lines of a chunk that lines.some(...) visits: up to and including
\* the first line that matches
RECURSIVE Visited(_)
Visited(lines) ==
  IF lines = <<>> THEN <<>>
  ELSE IF MatchesDebugger(Head(lines)) THEN <<Head(lines)>>
       ELSE <<Head(lines)>> \o Visited(Tail(lines))

\* a stderr handler that leaves debugEnabled on after a match
DebugEnabledAfter_StaysOn(found) == "on"

\* debugEnabled after a chunk was scanned: a match sets it to false
DebugEnabledAfter(found) == IF found THEN "off" ELSE "on"

\* startParent: debugEnabled = process.env.INSPECT_PLUGIN === this.plugin.name
DebugStart(flag) ==
  /\ debugEnabled = "unset"
  /\ debugEnabled' = IF flag THEN "on" ELSE "off"
  /\ UNCHANGED <<received, scanned, reported>>
  /\ UNCHANGED pluginVars /\ UNCHANGED relayVars /\ UNCHANGED descriptor
  /\ UNCHANGED runtimeVars

\* ctx.response 'data', case 'stderr'
Stderr(chunk) ==
  /\ debugEnabled # "unset"
  /\ Len(received) < MaxChunks
  /\ received' = Append(received, chunk)
  /\ IF debugEnabled = "on"
     THEN LET seen == Visited(chunk)
              found == MatchesDebugger(seen[Len(seen)])
          IN /\ scanned' = scanned \o seen
             /\ reported' = IF found THEN reported + 1 ELSE reported
             /\ debugEnabled' = DebugEnabledAfter(found)
     ELSE UNCHANGED <<scanned, reported, debugEnabled>>
  /\ UNCHANGED pluginVars /\ UNCHANGED relayVars /\ UNCHANGED descriptor
  /\ UNCHANGED runtimeVars

\* ---------------------------------------------------------------- system
\* The life cycle of the plugin host and the filesystem-triggered restart.
Next ==
  \/ Start
  \/ Stop
  \/ SpawnFail
  \/ SpawnOk
  \/ OnSpawn
  \/ \E autoReload \in BOOLEAN : AutoReload(autoReload)
  \/ ChildActivated
  \/ \E err \in Thrown : ChildActivationError(err)
  \/ \E code \in ExitCodes : ChildExit(code)
  \/ \E hookOk \in BOOLEAN : ChildDeactivate(hookOk)
  \/ Deliver
  \/ ExitEvent
  \/ FsChange
  \/ DebounceFire
  \/ RestartThen
  \/ RestartCatch

Spec == Init /\ [][Next]_vars

\* The same, with the event loops running what is ready: the parent handles
\* the spawn event, the tunnel messages and the exit event and runs the
\* steps of the restart chain; the plugin host handles the deactivate
\* request.  That a plugin host exits on its own is not assumed.
SpecFair ==
  /\ Spec
  /\ WF_vars(OnSpawn)
  /\ WF_vars(Deliver)
  /\ WF_vars(ExitEvent)
  /\ WF_vars(RestartThen)
  /\ WF_vars(RestartCatch)
  /\ WF_vars(\E hookOk \in BOOLEAN : ChildDeactivate(hookOk))

\* The life cycle of the plugin host and the requests dispatched to it.
NextDispatch ==
  \/ Start
  \/ Stop
  \/ Dispatch
  \/ SpawnFail
  \/ SpawnOk
  \/ OnSpawn
  \/ ChildActivated
  \/ \E err \in Thrown : ChildActivationError(err)
  \/ \E code \in ExitCodes : ChildExit(code)
  \/ \E hookOk \in BOOLEAN : ChildDeactivate(hookOk)
  \/ \E status \in Statuses : ChildDispatch(status)
  \/ Deliver
  \/ ExitEvent

SpecDispatch == Init /\ [][NextDispatch]_vars

\* The same, with the event loop of the parent running every handler whose
\* event is queued: the spawn event, a tunnel message, the exit event.
SpecDispatchFair ==
  /\ SpecDispatch
  /\ WF_vars(OnSpawn)
  /\ WF_vars(Deliver)
  /\ WF_vars(ExitEvent)

\* A response stream relayed through the tunnel and the unsubscribe
\* messages of its consumer.
NextRelay ==
  \/ \E where \in {"child", "parent"} : RelayOpen(where)
  \/ \E where \in {"child", "parent"}, outcome \in Outcomes :
       DispatchResult(where, outcome)
  \/ \E message \in Items : StreamData(message)
  \/ StreamEnd
  \/ \E err \in StreamErrors, terminal \in BOOLEAN : StreamError(err, terminal)
  \/ \E s \in Sids : Unsubscribe(s)

SpecRelay == Init /\ [][NextRelay]_vars

\* Plugin descriptors constructed from package.json files.
NextInfo ==
  \E pkgJson \in Manifests, processVersion \in Versions :
    Construct(pkgJson, processVersion)

SpecInfo == Init /\ [][NextInfo]_vars

\* The plugin host process: its start, its configuration and its
\* deactivation.
NextChild ==
  \/ StartChild
  \/ \E ok \in BOOLEAN : ConfigSubscribed(ok)
  \/ \E response \in ConfigMessages : ConfigData(response)
  \/ \E ok \in BOOLEAN : Activate(ok)
  \/ Deactivate
  \/ \E ok \in BOOLEAN : UnsubscribeDone(ok)
  \/ \E present \in BOOLEAN, ok \in BOOLEAN : DeactivateHook(present, ok)
  \/ AckAndExit

SpecChild == Init /\ [][NextChild]_vars

\* The calls the plugin host makes through its patched root dispatcher.
NextRootCalls ==
  \/ StartChild
  \/ \E path \in {"/a", "/b"}, payload \in {"p", "q"}, local \in LocalOutcomes :
       RootCall(path, payload, local)
  \/ \E k \in 1..MaxRootCalls, result \in {"parent result", "parent error"} :
       ParentSettles(k, result)

SpecRootCalls == Init /\ [][NextRootCalls]_vars

\* The stderr output of a plugin host and the report of its debugger URL.
NextDebug ==
  \/ \E flag \in BOOLEAN : DebugStart(flag)
  \/ \E chunk \in StderrChunks : Stderr(chunk)

SpecDebug == Init /\ [][NextDebug]_vars

TypeOK ==
  /\ info.state \in States
  /\ info.pid \in BOOLEAN
  /\ tunnel \in BOOLEAN
  /\ watchers \subseteq Dirs
  /\ startP \in {"none", "pending", "resolved", "rejected"}
  /\ stopP \in {"none", "pending", "resolved", "rejected"}
  /\ deact \in {"none", "pending", "acked"}
  /\ restart \in {"idle", "awaitStop"}
  /\ micro \in {"none", "restartThen", "restartCatch"}
  /\ alive \in 0..1
  /\ fsOpen >= Cardinality(watchers)

\* ---------------------------------------------------------------- claims
\* steps of a behaviour, told by what they change
\* the parent handles the exit event of the child
ExitStep == child.phase = "exited" /\ child'.phase = "none"
\* a caller calls start()
StartStep == nStarts' = nStarts + 1
\* a caller calls dispatch(ctx, next)
DispatchStep == Len(calls') = Len(calls) + 1
\* the debounced restart callback runs
RestartStep == cycles' = cycles + 1

\* C1: the lifecycle state is always one of STOPPED, STARTING, STARTED,
\* STOPPING; at most one plugin host process of the instance is running; and
\* a start() called while STARTING or STARTED changes nothing: no spawn call
\* is made and no process is added.
C1_OneChild ==
  /\ [](info.state \in States /\ alive <= 1)
  /\ [][StartStep /\ info.state \in {STARTING, STARTED}
        => UNCHANGED <<info, spawnReq, alive, child, startP>>]_vars

\* start() was called twice, the second time while STARTING or STARTED; one
\* spawn call was made and its process runs
C1_Witness ==
  /\ nStarts = 2
  /\ nRuns = 1
  /\ ~spawnReq
  /\ alive = 1
  /\ info.state = STARTED

\* C2: when the parent handles the exit of the child while STARTING, for
\* every exit code, the pending start() is rejected and the state becomes
\* STOPPED.
C2_ExitWhileStartingRejects ==
  [][ExitStep /\ info.state = STARTING
     => startP' = "rejected" /\ info'.state = STOPPED]_vars

\* C3: when the parent handles an exit with a non-zero code N while
\* STARTING, the error that rejects start() carries the message and stack of
\* the activation_error the child sent before it exited, and without one the
\* message 'Failed to activate plugin (code N)' with that N.
C3_RejectionError ==
  [][ExitStep /\ info.state = STARTING /\ child.code # 0
     => /\ startP' = "rejected"
        /\ IF child.thrown # NoErr
           THEN startErr' = child.thrown
           ELSE startErr'.message = FailedToActivate(child.code)]_vars

\* C4: when activate() throws, the child sends activation_error with the
\* thrown message and stack before it exits, exits with code 6 and never
\* sends activated; start() is then rejected with an error carrying the
\* thrown message and the state ends at STOPPED.
C4_ActivationFailure ==
  /\ [](child.thrown # NoErr
        => /\ child.phase = "exited"
           /\ child.code = ActivationFailureCode
           /\ \A k \in DOMAIN c2p : c2p[k].type # "activated")
  /\ [][child'.thrown # NoErr /\ child.thrown = NoErr
        => c2p' = Append(c2p, Msg("activation_error", DeactivateId,
                                  child'.thrown.message, child'.thrown.stack, 0))]_vars
  /\ [][ExitStep /\ child.thrown # NoErr /\ info.state = STARTING
        => /\ startP' = "rejected"
           /\ startErr'.message = child.thrown.message
           /\ info'.state = STOPPED]_vars

\* C5: the child sends activated only once activate() has succeeded; the
\* pending start() resolves exactly in the step in which the parent receives
\* activated, and that step moves the state to STARTED.
C5_ActivatedResolves ==
  /\ []((\E k \in DOMAIN c2p : c2p[k].type = "activated")
        => child.phase \in {"activated", "exited"} /\ child.thrown = NoErr)
  /\ [][startP' = "resolved" /\ startP # "resolved"
        => /\ startP = "pending"
           /\ c2p # <<>>
           /\ Head(c2p).type = "activated"
           /\ c2p' = Tail(c2p)
           /\ info'.state = STARTED]_vars
  /\ [][c2p # <<>> /\ Head(c2p).type = "activated" /\ c2p' = Tail(c2p)
        /\ startP = "pending"
        => startP' = "resolved" /\ info'.state = STARTED]_vars

\* start() has resolved on the activated message of a child that is running
C5_Witness ==
  /\ startP = "resolved"
  /\ info.state = STARTED
  /\ child.phase = "activated"
  /\ c2p = <<>>

\* C6: when the parent handles an exit with a non-zero, non-reserved code
\* while STARTED, the state becomes STOPPED, a non-empty error is captured
\* and the watchers of the instance are closed.
C6_CrashCaptured ==
  [][ExitStep /\ info.state = STARTED /\ child.code \notin {0, ActivationFailureCode}
     => /\ info'.state = STOPPED
        /\ Truthy(info'.error)
        /\ watchers' = {}
        /\ fsOpen' = fsOpen - Cardinality(watchers)]_vars

\* C7: when the parent handles an exit while STOPPING, the state becomes
\* STOPPED for every exit code and the start() promise is left as it is.
C7_ExitWhileStopping ==
  [][ExitStep /\ info.state = STOPPING
     => /\ info'.state = STOPPED
        /\ UNCHANGED <<startP, startErr>>]_vars

\* a stop() of the started plugin was cut short by a crash with code 1
C7_Witness ==
  /\ nRuns = 1
  /\ info.state = STOPPED
  /\ info.exitCode = 1
  /\ stopP = "rejected"
  /\ startP = "resolved"

\* the restart chain reaches its second step
RestartThenStep == micro = "restartThen" /\ micro' = "none"

\* C8: change events that fall into one debounce window begin one restart
\* cycle: a change event begins none, the expiry of the timer begins exactly
\* one, and in that cycle start() is invoked only after stop() has completed:
\* for a started plugin, after the parent has handled the exit of the child
\* that acknowledged the deactivate request.
C8_OneRestartPerWindow ==
  /\ [][nChanges' # nChanges => cycles' = cycles /\ timer']_vars
  /\ [][cycles' # cycles => cycles' = cycles + 1 /\ timer /\ ~timer']_vars
  /\ [][RestartStep /\ info.state = STARTED
        => /\ info'.state = STOPPING
           /\ restart' = "awaitStop"
           /\ micro' = "none"
           /\ UNCHANGED <<spawnReq, pluginError>>]_vars
  /\ [][restart = "awaitStop" /\ restart' = "idle"
        => /\ ExitStep
           /\ stopP' = (IF deact = "acked" THEN "resolved" ELSE "rejected")
           /\ micro' = (IF deact = "acked" THEN "restartThen" ELSE "restartCatch")]_vars
  /\ [][restart = "awaitStop" => UNCHANGED spawnReq]_vars
  /\ [](restart = "awaitStop" => info.state = STOPPING)

\* two change events in one window restarted a started plugin once: its
\* stop() has completed and the start() of the chain has been invoked
C8_Witness ==
  /\ nChanges = 2
  /\ cycles = 1
  /\ ~timer
  /\ nStarts = 1
  /\ nStops = 0
  /\ stopP = "resolved"
  /\ info.state = STARTING
  /\ spawnReq

\* C9: in a restart triggered by a filesystem change, the step that runs
\* after stop() has completed and invokes the new start() leaves the
\* captured error of the instance cleared, so that the new run starts
\* without the error of the previous one.
C9_RestartClearsError ==
  [][RestartThenStep /\ info.state = STOPPED => ~Truthy(info'.error)]_vars

\* C10: dispatch() called while the Host has no Tunnel calls next() and
\* sends nothing; and the Host has no Tunnel before a child is spawned and
\* after it has handled the exit of the child.
C10_NoTunnelFallsThrough ==
  /\ [][DispatchStep /\ ~tunnel
        => /\ calls'[Len(calls')] = Call("next", 0, "")
           /\ UNCHANGED <<p2c, c2p>>]_vars
  /\ [][ExitStep => ~tunnel']_vars
  /\ [](child.phase = "none" => ~tunnel)

\* dispatch() was called before any child was spawned and fell through
C10_Witness ==
  /\ nRuns = 0
  /\ ~tunnel
  /\ calls = <<Call("next", 0, "")>>
  /\ p2c = <<>>

\* dispatch() was called after the child had exited and fell through
C10_WitnessAfterExit ==
  /\ nRuns = 1
  /\ ~tunnel
  /\ info.state = STOPPED
  /\ info.exitCode = 1
  /\ calls = <<Call("next", 0, "")>>

\* C11: when the reply to a dispatch forwarded through the Tunnel arrives,
\* a reply with status 404 makes the Host call next() and leaves ctx.status
\* and ctx.response as they were; a reply with any other status sets
\* ctx.status to the reply's status and ctx.response to the reply's response
\* and next() is not called.
C11_ReplyMapping ==
  [][/\ c2p # <<>> /\ c2p' = Tail(c2p)
     /\ Head(c2p).type = "reply" /\ Head(c2p).id # DeactivateId
     => LET res == Head(c2p)
            c == calls[res.id]
        IN /\ c = Call("pending", 0, "")
           /\ IF res.status = 404
              THEN calls'[res.id] = Call("next", 0, "")
              ELSE /\ calls'[res.id].st = "answered"
                   /\ calls'[res.id].status = res.status
                   /\ calls'[res.id].response = res.message]_vars

\* a forwarded dispatch was answered by the child with status 500
C11_Witness ==
  /\ tunnel
  /\ calls = <<Call("answered", 500, "R")>>
  /\ c2p = <<>>

\* C12: when the peer process exits before it replies, every Tunnel send()
\* that is pending at that moment (a forwarded dispatch, the deactivate
\* request of stop()) is rejected when the exit is handled; a rejected send
\* is never settled again; and no send stays pending for ever once the peer
\* has exited: it is settled by a reply the peer sent before it exited, or
\* rejected.
C12_PendingSendsReject ==
  /\ [][ExitStep
        => /\ \A k \in DOMAIN calls :
                calls[k].st = "pending" => calls'[k].st = "rejected"
           /\ deact = "pending" => deact' = "none" /\ stopP' = "rejected"]_vars
  /\ [][\A k \in DOMAIN calls :
          calls[k].st = "rejected" => calls'[k] = calls[k]]_vars
  /\ [][stopP = "rejected" => stopP' = "rejected" \/ nStops' # nStops]_vars
  /\ [](child.phase = "none"
        => deact # "pending" /\ \A k \in DOMAIN calls : calls[k].st # "pending")
  /\ \A k \in 1..MaxCalls :
       (k \in DOMAIN calls /\ calls[k].st = "pending" /\ child.phase = "exited")
         ~> (k \in DOMAIN calls /\ calls[k].st # "pending")
  /\ (deact = "pending" /\ child.phase = "exited") ~> (deact # "pending")

\* the child was killed with a dispatch and the deactivate request of
\* stop() unanswered, and both sends were rejected
C12_Witness ==
  /\ child.phase = "none"
  /\ nRuns = 1
  /\ info.exitCode = 1
  /\ calls = <<Call("rejected", 0, "")>>
  /\ stopP = "rejected"

\* the relay has observed a subscribe item
SubscribeObserved == \E k \in DOMAIN got : got[k].type = "subscribe"

\* the relay has forwarded the N data items it received, one message each,
\* in the order received
ForwardedInOrder ==
  /\ Len(sent) >= Len(got)
  /\ \A k \in DOMAIN got :
       /\ sent[k].message = got[k].message
       /\ sent[k].sid = got[k].sid
       /\ got[k].type # NoType => sent[k].type = got[k].type

\* C13: a relay (child side or parent side) that has received N data items
\* and then the end of the stream has sent exactly N forwarded messages, in
\* the order received, followed by exactly one fin carrying the subscription
\* id if a subscribe item was observed and by no fin otherwise; and no fin
\* is sent once the relay has handled an error of that stream.
C13_RelayThenFin ==
  /\ [](stream = "ended" /\ streamErr = NoStreamErr
        => /\ ForwardedInOrder
           /\ IF SubscribeObserved
              THEN sent = SubSeq(sent, 1, Len(got)) \o <<Fin("s1")>>
              ELSE Len(sent) = Len(got))
  /\ [][streamErr # NoStreamErr
        => \A k \in (Len(sent) + 1)..Len(sent') : sent'[k].type # "fin"]_vars

\* C14: when a relayed response stream fails after k data items, the relay
\* has forwarded exactly k messages and the step that handles the error
\* sends the requester exactly one message of type error with the error's
\* message and stack and with the error's status, or 500 when it has none;
\* on the parent side the registration of the stream's subscription id is
\* absent afterwards.
C14_StreamErrorRelayed ==
  [][streamErr = NoStreamErr /\ streamErr' # NoStreamErr
     => /\ ForwardedInOrder
        /\ Len(sent) = Len(got)
        /\ sent' = Append(sent,
                          Item("object", "error", NoSid, streamErr'.message,
                               streamErr'.stack,
                               IF streamErr'.status = 0 THEN 500
                               ELSE streamErr'.status))
        /\ side = "parent" => sid \notin streams']_vars

\* C15: on the parent side an unsubscribe message for a registered
\* subscription id ends that stream and removes its registration; an
\* unsubscribe for an unknown or already removed id changes nothing: no
\* stream is ended and no registration changes, so that the second of two
\* unsubscribe messages for one id is a no-op.
C15_UnsubscribeOnce ==
  [][Len(unsubs') = Len(unsubs) + 1
     => LET s == unsubs'[Len(unsubs')]
        IN IF s \in streams
           THEN /\ stream = "open"
                /\ stream' = "ending"
                /\ streams' = streams \ {s}
                /\ UNCHANGED <<sent, thisSent, streamErr>>
           ELSE UNCHANGED <<side, stream, got, sid, streams, sent, thisSent,
                            streamErr>>]_vars

\* two unsubscribe messages for the id of a subscription stream of the
\* parent: one of them ended the stream, the other changed nothing
C15_Witness ==
  /\ side = "parent"
  /\ SubscribeObserved
  /\ unsubs = <<"s1", "s1">>
  /\ stream = "ending"
  /\ streams = {}

\* C16: a constructed descriptor has type 'internal' exactly when the
\* manifest has an appcd section whose type equals 'internal'; every other
\* manifest (no appcd section, no type, any other value) yields 'external'.
C16_TypeInternalIffDeclared ==
  [](descriptor.made /\ descriptor.thrown = NoError
     => IF descriptor.pkgJson.appcd /\ descriptor.pkgJson.type = "internal"
        THEN descriptor.type = "internal"
        ELSE descriptor.type = "external")

\* a descriptor of a manifest that declares 'Internal' is external
C16_Witness ==
  /\ descriptor.made
  /\ descriptor.thrown = NoError
  /\ descriptor.pkgJson.appcd
  /\ descriptor.pkgJson.type = "Internal"
  /\ descriptor.type = "external"

\* a descriptor of a manifest that declares 'internal' is internal
C16_WitnessInternal ==
  /\ descriptor.made
  /\ descriptor.thrown = NoError
  /\ descriptor.type = "internal"

\* C17: constructing the descriptor of an internal plugin whose declared
\* Node.js requirement the host version does not satisfy fails with the
\* version-mismatch error; an external plugin with an unsatisfied
\* requirement is accepted and keeps the declared requirement; a plugin
\* without a declared requirement gets the host version.
C17_InternalVersionMismatch ==
  [](descriptor.made
     => LET pkgJson == descriptor.pkgJson
            internal == pkgJson.appcd /\ pkgJson.type = "internal"
            unsatisfied == \/ descriptor.processVersion < pkgJson.node.lo
                           \/ descriptor.processVersion > pkgJson.node.hi
        IN /\ pkgJson.node.given /\ internal /\ unsatisfied
                => descriptor.thrown = VersionMismatchError
           /\ pkgJson.node.given /\ ~internal /\ unsatisfied
                => /\ descriptor.thrown = NoError
                   /\ descriptor.nodeVersion = pkgJson.node
           /\ ~pkgJson.node.given
                => /\ descriptor.thrown = NoError
                   /\ descriptor.nodeVersion.lo = descriptor.processVersion
                   /\ descriptor.nodeVersion.hi = descriptor.processVersion)

\* the construction of an internal plugin's descriptor failed
C17_Witness ==
  /\ descriptor.made
  /\ descriptor.type = "internal"
  /\ descriptor.thrown = VersionMismatchError

\* an external plugin with an unsatisfied requirement was accepted
C17_WitnessExternal ==
  /\ descriptor.made
  /\ descriptor.type = "external"
  /\ descriptor.pkgJson.node.given
  /\ descriptor.processVersion < descriptor.pkgJson.node.lo
  /\ descriptor.thrown = NoError

\* C18: when the Host has handled an exit event of the child, in whatever
\* lifecycle state, the Tunnel reference is null, the recorded pid is null,
\* every watcher that was in the watcher map has been closed and the map is
\* empty.
C18_ExitTearsDown ==
  [][ExitStep
     => /\ ~tunnel'
        /\ ~info'.pid
        /\ fsOpen' = fsOpen - Cardinality(watchers)
        /\ watchers' = {}]_vars

\* the watchers of a run delivered a change event and the exit of that run
\* closed them all
C18_Witness ==
  /\ nRuns = 1
  /\ nChanges >= 1
  /\ child.phase = "none"
  /\ ~tunnel
  /\ ~info.pid
  /\ watchers = {}
  /\ fsOpen = 0

\* C19: the last exit code of the Host is null from the spawn event until
\* the exit of the child is handled, and from then on it is the exit code
\* of the child, for every exit code, 0 included.
C19_ExitCodeRecorded ==
  /\ [](info.pid => info.exitCode = NoCode)
  /\ [][ExitStep => info'.exitCode = child.code]_vars

\* C20: under every interleaving of the spawn event, the completion of the
\* autoReload lookup and the exit event, no watcher of the instance is open
\* once the exit has been handled and no child is running; a watcher is
\* never created for a child that has exited; and the watchers that are
\* open are the ones in the map, none having been replaced there without
\* being closed.
C20_NoWatcherLeak ==
  /\ [](child.phase = "none" => fsOpen = 0)
  /\ [][fsOpen' > fsOpen => child.phase \in Live]_vars
  /\ [](fsOpen = Cardinality(watchers))

\* a restart cycle is in flight: its chain waits for stop() or has a step
\* ready to run
RestartInFlight == restart = "awaitStop" \/ micro # "none"

\* C21: at most one filesystem-triggered restart cycle is in flight per
\* instance: the debounced restart callback does not run while an earlier
\* cycle is in flight, and it never invokes stop() on an instance whose
\* Tunnel is null.
C21_OneRestartInFlight ==
  /\ [][RestartStep => ~RestartInFlight]_vars
  /\ [][RestartStep => tunnel]_vars

\* C22: every dispatch request served by a tunnel handler, on the child
\* side or the parent side, gets at most one message through the scoped
\* send(), on the success path and on the failure path, a stream result
\* included.
C22_AtMostOneReply ==
  [](side # "none" => Len(sent) <= 1)

\* C22, amended: a dispatch request whose result is no stream gets at most
\* one message through the scoped send(), on the success path or on the
\* failure path; a request whose result is a stream gets one message for
\* every data item and after them at most one fin.
C22_OneReplyOrOnePerItem ==
  /\ [](side # "none" /\ stream = "none" => Len(sent) <= 1)
  /\ [](stream # "none"
        => /\ Len(got) <= Len(sent)
           /\ Len(sent) <= Len(got) + 1
           /\ \A k \in DOMAIN sent : sent[k].type = "fin" => k = Len(got) + 1)
  /\ [][Len(sent') >= Len(sent) /\ Len(sent') <= Len(sent) + 1]_vars

\* a subscription stream of two items has ended: the request got three
\* messages
C22_Witness ==
  /\ stream = "ended"
  /\ Len(got) = 2
  /\ Len(sent) = 3
  /\ sent[3].type = "fin"

\* a request whose dispatcher call was rejected got one reply
C22_WitnessRejected ==
  /\ side = "parent"
  /\ stream = "none"
  /\ Len(sent) = 1
  /\ sent[1].status = 500

\* the plugin host receives a data item of the configuration stream
ConfigStep == Len(cfgEvents') = Len(cfgEvents) + 1

\* C26: in the plugin host, when the configuration subscription has
\* succeeded, activate() is not invoked before the first configuration
\* event of type 'event' has been received; every such event replaces the
\* stored configuration; when it carries a non-zero server.agentPollInterval
\* v the poll interval becomes max(1000, v); and the interval set from the
\* configuration is never below 1000.
C26_ConfigBeforeActivate ==
  /\ [](rt = "waiting"
        => /\ \A k \in DOMAIN steps : steps[k] # "activate"
           /\ \A k \in DOMAIN cfgEvents : cfgEvents[k].type # "event")
  /\ [][rt = "waiting" /\ rt' # "waiting"
        => /\ ConfigStep
           /\ cfgEvents'[Len(cfgEvents')].type = "event"
           /\ steps' = Append(steps, "activate")]_vars
  /\ [][ConfigStep /\ cfgEvents'[Len(cfgEvents')].type = "event"
        => LET cfg == cfgEvents'[Len(cfgEvents')].message
           IN /\ config' = cfg
              /\ cfg.server /\ cfg.agentPollInterval # 0
                   => /\ pollInterval' >= cfg.agentPollInterval
                      /\ pollInterval' >= 1000
                      /\ pollInterval' \in {1000, cfg.agentPollInterval}]_vars
  /\ [](pollInterval # NoInterval => pollInterval >= 1000)

\* the first configuration event carried agentPollInterval 500: activate()
\* was invoked after it and the poll interval is 1000
C26_Witness ==
  /\ cfgEvents # <<>>
  /\ cfgEvents[Len(cfgEvents)].type = "event"
  /\ cfgEvents[Len(cfgEvents)].message = Config(TRUE, 500)
  /\ pollInterval = 1000
  /\ config = Config(TRUE, 500)
  /\ steps = <<"activate">>

\* the position of step x in the steps of the plugin host, 0 when absent
StepAt(x) ==
  IF \E k \in DOMAIN steps : steps[k] = x
  THEN CHOOSE k \in DOMAIN steps : steps[k] = x
  ELSE 0

\* C23: on a deactivate message the plugin host, in this order,
\* unsubscribes from the configuration if it holds a configuration
\* subscription id, invokes the deactivate hook of the plugin module if it
\* has one, sends the acknowledgment and exits with code 0; a failure of
\* the unsubscribe prevents none of the later steps; and the acknowledgment
\* is sent before the process exits.
C23_DeactivateOrder ==
  /\ [][StepAt("deactivate") = 0 /\ StepAt("deactivate")' # 0
        => (configSubscriptionId # NoSid <=> StepAt("unsubscribe")' # 0)]_vars
  /\ [](StepAt("unsubscribe") # 0
        => StepAt("unsubscribe") = StepAt("deactivate") + 1)
  /\ [](StepAt("hook") # 0
        => /\ StepAt("deactivate") # 0
           /\ StepAt("hook") > StepAt("deactivate")
           /\ StepAt("hook") > StepAt("unsubscribe")
           /\ rt \notin {"unsubscribing", "hook"})
  /\ [](StepAt("ack") # 0
        => /\ StepAt("ack") > StepAt("hook")
           /\ StepAt("ack") > StepAt("unsubscribe")
           /\ StepAt("ack") > StepAt("deactivate")
           /\ StepAt("deactivate") # 0
           /\ steps = SubSeq(steps, 1, StepAt("ack")) \o <<"exit 0">>)
  /\ [](StepAt("exit 0") # 0 => StepAt("ack") = StepAt("exit 0") - 1)
  /\ [][rt = "unsubscribing" /\ rt' # rt => rt' = "hook"]_vars
  /\ [](StepAt("unsubscribe failed") # 0 => rt \in {"hook", "ack", "stuck", "exited"})

\* a deactivation whose unsubscribe failed went on to the hook, the
\* acknowledgment and the exit
C23_Witness ==
  /\ rt = "exited"
  /\ StepAt("deactivate") # 0
  /\ steps = SubSeq(steps, 1, StepAt("deactivate"))
                \o <<"unsubscribe", "unsubscribe failed", "hook", "ack", "exit 0">>

\* C25: in the plugin host, a call through the patched root dispatcher
\* that succeeds locally is not forwarded to the parent; a call that fails
\* locally with a DispatcherError of status 404 is forwarded to the parent
\* exactly once, with the same path and payload, and its outcome is the
\* outcome of the parent; a call that fails with any other error fails with
\* that error and is not forwarded.
C25_ForwardOnlyNotFound ==
  [](\A k \in DOMAIN rootCalls :
       LET c == rootCalls[k]
           forwards == {j \in DOMAIN fwd : fwd[j].call = k}
       IN IF c.local.ok
          THEN forwards = {} /\ c.outcome = "local result"
          ELSE IF c.local.dispatcherError /\ c.local.statusCode = 404
               THEN /\ Cardinality(forwards) = 1
                    /\ \A j \in forwards :
                         /\ fwd[j].path = c.path
                         /\ fwd[j].data = c.payload
                         /\ c.outcome = fwd[j].reply
               ELSE forwards = {} /\ c.outcome = "local error")

\* a call for which the plugin host has no route was forwarded and failed
\* in the parent; an error with statusCode 404 that is no DispatcherError
\* was not forwarded
C25_Witness ==
  /\ Len(rootCalls) = 2
  /\ rootCalls[1].local = [ok |-> FALSE, dispatcherError |-> TRUE, statusCode |-> 404]
  /\ rootCalls[1].outcome = "parent error"
  /\ rootCalls[2].local = [ok |-> FALSE, dispatcherError |-> FALSE, statusCode |-> 404]
  /\ rootCalls[2].outcome = "local error"
  /\ Len(fwd) = 1

\* the deactivate requests on their way to the plugin host
DeactivatesInFlight == {k \in DOMAIN p2c : p2c[k].type = "deactivate"}

\* C24: when stop() is called on a STARTED plugin the Host sends exactly
\* one deactivate request, and the lifecycle then reaches STOPPED, the
\* plugin host being scheduled fairly, whether the deactivate hook of the
\* plugin module succeeds, throws or rejects.
C24_StopReachesStopped ==
  /\ [][info.state = STARTED /\ info'.state = STOPPING
        => /\ deact' = "pending"
           /\ child.phase \in Live => p2c' = Append(p2c, Msg("deactivate", DeactivateId, "", "", 0))]_vars
  /\ [](Cardinality(DeactivatesInFlight) <= 1)
  /\ (info.state = STOPPING) ~> (info.state = STOPPED)

\* C27: with the debug flag active for the plugin the Host reports the
\* debugger URL at most once per started instance: after the first stderr
\* line that matches 'Debugger listening on', no later stderr output of the
\* instance is scanned or reported; with the flag not active no output is
\* ever scanned.
C27_DebuggerReportedOnce ==
  /\ [](reported <= 1)
  /\ [](\A k \in DOMAIN scanned :
          MatchesDebugger(scanned[k]) => k = Len(scanned) /\ reported = 1)
  /\ [][reported' # reported
        => /\ debugEnabled = "on"
           /\ scanned' # <<>>
           /\ MatchesDebugger(scanned'[Len(scanned')])]_vars
  /\ [][(reported = 1 \/ debugEnabled = "off") => UNCHANGED <<scanned, reported>>]_vars

\* the URL was reported for the first chunk; a later chunk with another
\* matching line was not scanned
C27_Witness ==
  /\ reported = 1
  /\ Len(received) = 2
  /\ MatchesDebugger(received[2][1])
  /\ Len(scanned) = 2
  /\ scanned = received[1]

\* C28: whenever the lifecycle state is STARTED or STOPPING the Tunnel
\* reference is non-null, so onStop() never dereferences a null Tunnel; the
\* reference becomes null only in the exit handler, in the step that moves
\* the state to STOPPED.
C28_TunnelWhileRunning ==
  /\ [](info.state \in {STARTED, STOPPING} => tunnel)
  /\ [][info.state = STARTED /\ info'.state = STOPPING => tunnel]_vars
  /\ [][tunnel /\ ~tunnel' => ExitStep /\ info'.state = STOPPED]_vars

\* the exit of a plugin that was stopping has been handled
C28_Witness ==
  /\ ~tunnel
  /\ info.state = STOPPED
  /\ stopP \in {"resolved", "rejected"}
  /\ child.phase = "none"
  /\ nRuns >= 1

====
